---------------------------- MODULE Spec2Model ----------------------------
(***************************************************************************)
(* A model of docs/scrape_javadoc.py: the root-bounded breadth-first crawl  *)
(* of main(), the skip predicate, the URL-to-path mapping, the text         *)
(* normalisation and the HTML-to-text walk.                                 *)
(*                                                                          *)
(* Python strings are sequences of one-character strings, so that prefix,   *)
(* suffix, split and regular-expression substitution are computed as the    *)
(* code computes them.                                                      *)
(***************************************************************************)
EXTENDS Integers, Sequences, FiniteSets, TLC

VARIABLES
    start, root, max_pages,   \* args.start, args.root, args.max_pages
    site, down,               \* the static site: hrefs of each page, URLs whose fetch raises
    runs,                     \* the runs of main() in this behaviour, one after the other
    q, seen, saved,           \* per run: deque, set, counter of main()
    files,                    \* per run: what write_text put under outdir (path -> text)
    dequeued,                 \* per run: the URLs q.popleft() returned, in order
    fetched,                  \* per run: the URLs fetch() was called on, in order
    pc,                       \* per run: "loop", "done" (loop left) or "crashed" (uncaught exception)
    norm,                     \* normalize() harness
    pm,                       \* url_to_outpath() harness
    tx                        \* html_to_text() harness

vars == <<start, root, max_pages, site, down, runs, q, seen, saved, files,
          dequeued, fetched, pc, norm, pm, tx>>

---------------------------------------------------------------------------
(* Bounds of the model. *)

MaxPagesBound == 4     \* --max-pages ranges over 0..MaxPagesBound
MaxLen == 5            \* normalize(): input strings of up to MaxLen characters
MaxTokens == 3         \* url_to_outpath(): the part after root is up to MaxTokens tokens
MaxNodes == 4          \* html_to_text(): nodes below the content root

---------------------------------------------------------------------------
(* Python str operations on sequences of characters. *)

Drop(s, n) == SubSeq(s, n + 1, Len(s))

startswith(s, p) == Len(p) <= Len(s) /\ SubSeq(s, 1, Len(p)) = p

endswith(s, p) == Len(p) <= Len(s) /\ SubSeq(s, Len(s) - Len(p) + 1, Len(s)) = p

\* s.find(c): the first index of character c in s, 0 when absent (Python: -1)
find(s, c) ==
    IF \E i \in 1..Len(s) : s[i] = c
    THEN CHOOSE i \in 1..Len(s) : s[i] = c /\ \A j \in 1..(i - 1) : s[j] # c
    ELSE 0

\* s.rfind(c): the last index of character c in s, 0 when absent
rfind(s, c) ==
    IF \E i \in 1..Len(s) : s[i] = c
    THEN CHOOSE i \in 1..Len(s) : s[i] = c /\ \A j \in (i + 1)..Len(s) : s[j] # c
    ELSE 0

\* s.split(c, 1)[0]
BeforeFirst(s, c) == IF find(s, c) = 0 THEN s ELSE SubSeq(s, 1, find(s, c) - 1)

UpperCase == <<"A","B","C","D","E","F","G","H","I","J","K","L","M",
               "N","O","P","Q","R","S","T","U","V","W","X","Y","Z">>
LowerCase == <<"a","b","c","d","e","f","g","h","i","j","k","l","m",
               "n","o","p","q","r","s","t","u","v","w","x","y","z">>

LowerChar(c) ==
    IF \E i \in 1..26 : UpperCase[i] = c
    THEN LowerCase[CHOOSE i \in 1..26 : UpperCase[i] = c]
    ELSE c

lower(s) == [i \in 1..Len(s) |-> LowerChar(s[i])]

\* the number of leading characters of s that are in set cs
RECURSIVE Leading(_, _)
Leading(s, cs) ==
    IF s # <<>> /\ s[1] \in cs THEN 1 + Leading(Tail(s), cs) ELSE 0

RECURSIVE Repeat(_, _)
Repeat(c, n) == IF n = 0 THEN <<>> ELSE <<c>> \o Repeat(c, n - 1)

RECURSIVE Concat(_)
Concat(ss) == IF ss = <<>> THEN <<>> ELSE ss[1] \o Concat(Tail(ss))

---------------------------------------------------------------------------
(* normalize(), lines 26-31. *)

\* s.replace("\r\n", "\n")
RECURSIVE ReplaceCRLF(_)
ReplaceCRLF(s) ==
    IF s = <<>> THEN <<>>
    ELSE IF Len(s) >= 2 /\ s[1] = "\r" /\ s[2] = "\n"
         THEN <<"\n">> \o ReplaceCRLF(Drop(s, 2))
         ELSE <<s[1]>> \o ReplaceCRLF(Tail(s))

\* s.replace("\r", "\n")
ReplaceCR(s) == [i \in 1..Len(s) |-> IF s[i] = "\r" THEN "\n" ELSE s[i]]

\* re.sub(r"[ \t]+", " ", s)
RECURSIVE CollapseBlanks(_)
CollapseBlanks(s) ==
    IF s = <<>> THEN <<>>
    ELSE IF s[1] \in {" ", "\t"}
         THEN <<" ">> \o CollapseBlanks(Drop(s, Leading(s, {" ", "\t"})))
         ELSE <<s[1]>> \o CollapseBlanks(Tail(s))

\* re.sub(r" *\n *", "\n", s): leftmost match, the spaces on both sides greedy
RECURSIVE StripAroundNewlines(_)
StripAroundNewlines(s) ==
    IF s = <<>> THEN <<>>
    ELSE LET k == Leading(s, {" "})
         IN  IF k < Len(s) /\ s[k + 1] = "\n"
             THEN LET rest == Drop(s, k + 1)
                  IN  <<"\n">> \o StripAroundNewlines(Drop(rest, Leading(rest, {" "})))
             ELSE IF k > 0
                  THEN Repeat(" ", k) \o StripAroundNewlines(Drop(s, k))
                  ELSE <<s[1]>> \o StripAroundNewlines(Tail(s))

\* re.sub(r"\n{3,}", "\n\n", s)
RECURSIVE CollapseNewlines(_)
CollapseNewlines(s) ==
    IF s = <<>> THEN <<>>
    ELSE LET k == Leading(s, {"\n"})
         IN  IF k >= 3 THEN <<"\n", "\n">> \o CollapseNewlines(Drop(s, k))
             ELSE IF k > 0 THEN Repeat("\n", k) \o CollapseNewlines(Drop(s, k))
             ELSE <<s[1]>> \o CollapseNewlines(Tail(s))

\* the characters str.strip() removes that the inputs may hold
Whitespace == {" ", "\t", "\n", "\r", "\f"}

RECURSIVE rstrip(_)
rstrip(s) ==
    IF s # <<>> /\ s[Len(s)] \in Whitespace THEN rstrip(SubSeq(s, 1, Len(s) - 1)) ELSE s

\* s.strip()
strip(s) == rstrip(Drop(s, Leading(s, Whitespace)))

\* a plausible slip: the spaces around newlines removed before the tabs have
\* become spaces
normalizeTrimFirst(s) ==
    strip(CollapseNewlines(CollapseBlanks(StripAroundNewlines(ReplaceCR(ReplaceCRLF(s))))))
        \o <<"\n">>

normalize(s) ==
    strip(CollapseNewlines(StripAroundNewlines(CollapseBlanks(ReplaceCR(ReplaceCRLF(s))))))
        \o <<"\n">>

---------------------------------------------------------------------------
(* URLs: is_within_root(), should_skip_url(), lines 33-43, and the part of  *)
(* urllib.parse they call.                                                  *)

HTTP == <<"h","t","t","p",":","/","/","s">>                 \* http://s

SKIP_EXT == {
    <<".","c","s","s">>, <<".","j","s">>, <<".","p","n","g">>, <<".","j","p","g">>,
    <<".","j","p","e","g">>, <<".","g","i","f">>, <<".","s","v","g">>, <<".","i","c","o">>,
    <<".","w","o","f","f">>, <<".","w","o","f","f","2">>, <<".","t","t","f">>,
    <<".","e","o","t">>, <<".","z","i","p">>, <<".","j","a","r">>, <<".","w","a","r">>,
    <<".","p","d","f">> }

is_within_root(url, r) == startswith(url, r)

Letters == {UpperCase[i] : i \in 1..26} \cup {LowerCase[i] : i \in 1..26}

SchemeChars == Letters \cup {"0","1","2","3","4","5","6","7","8","9","+","-","."}

\* urlsplit: a leading "scheme:" is cut off
AfterScheme(url) ==
    LET i == find(url, ":")
    IN  IF i > 1 /\ url[1] \in Letters /\ \A j \in 1..(i - 1) : url[j] \in SchemeChars
        THEN Drop(url, i)
        ELSE url

\* urlsplit: after "//" the netloc runs to the first of "/", "?", "#"
AfterNetloc(rest) ==
    IF startswith(rest, <<"/", "/">>)
    THEN LET ends == {i \in 3..Len(rest) : rest[i] \in {"/", "?", "#"}}
         IN  IF ends = {} THEN <<>>
             ELSE Drop(rest, (CHOOSE i \in ends : \A j \in ends : i <= j) - 1)
    ELSE rest

\* urlparse(url).path: what is left without scheme, netloc, fragment and query
\* (the URLs of the model hold no ";", so no params are split off)
UrlPath(url) == BeforeFirst(BeforeFirst(AfterNetloc(AfterScheme(url)), "#"), "?")

should_skip_url(url) == \E ext \in SKIP_EXT : endswith(lower(UrlPath(url)), ext)

\* urldefrag(url)[0]
urldefrag(url) == BeforeFirst(url, "#")

---------------------------------------------------------------------------
(* pathlib.PurePosixPath, as url_to_outpath() uses it: a path is its anchor *)
(* ("" relative, "/" or "//" absolute) and its parts below the anchor.      *)

\* s.split("/")
RECURSIVE SplitSlash(_)
SplitSlash(s) ==
    IF find(s, "/") = 0 THEN <<s>>
    ELSE <<SubSeq(s, 1, find(s, "/") - 1)>> \o SplitSlash(Drop(s, find(s, "/")))

\* Path(rel): empty and "." components are dropped, ".." is kept
Path(rel) ==
    LET lead == Leading(rel, {"/"})
    IN  [anchor |-> IF lead = 0 THEN "" ELSE IF lead = 2 THEN "//" ELSE "/",
         parts  |-> SelectSeq(SplitSlash(rel), LAMBDA c : c # <<>> /\ c # <<".">>)]

\* with_suffix() raises ValueError when the path has no name
ValueError == [anchor |-> "ValueError", parts |-> <<>>]

PathName(p) == IF p.parts = <<>> THEN <<>> ELSE p.parts[Len(p.parts)]

\* Path.suffix: from the last "." of the name, unless it leads or ends the name
PathSuffix(p) ==
    LET name == PathName(p)
        i == rfind(name, ".")
    IN  IF 1 < i /\ i < Len(name) THEN SubSeq(name, i, Len(name)) ELSE <<>>

with_suffix(p, suffix) ==
    LET name == PathName(p)
        stem == SubSeq(name, 1, Len(name) - Len(PathSuffix(p)))
    IN  IF name = <<>> THEN ValueError
        ELSE [p EXCEPT !.parts = SubSeq(p.parts, 1, Len(p.parts) - 1) \o <<stem \o suffix>>]

\* outdir / rel_path: an absolute right operand replaces the left one
joinpath(dir, p) ==
    IF p = ValueError THEN ValueError
    ELSE IF p.anchor # "" THEN p
    ELSE [anchor |-> dir.anchor, parts |-> dir.parts \o p.parts]

\* Path(args.outdir).resolve(): absolute, without ".."
outdir == [anchor |-> "/", parts |-> << <<"o">> >>]

DotHtml == <<".","h","t","m","l">>
DotHtm == <<".","h","t","m">>
DotTxt == <<".","t","x","t">>
IndexHtml == <<"i","n","d","e","x">> \o DotHtml

\* url_to_outpath(), lines 159-172
url_to_outpath(url, r, dir) ==
    LET rel0 == Drop(url, Len(r))
        rel1 == IF rel0 = <<>> \/ endswith(rel0, <<"/">>) THEN rel0 \o IndexHtml ELSE rel0
        rel2 == BeforeFirst(rel1, "?")
        rel_path == Path(rel2)
        sfx == PathSuffix(rel_path)
    IN  joinpath(dir,
            IF lower(sfx) \in {DotHtml, DotHtm}
            THEN with_suffix(rel_path, DotTxt)
            ELSE with_suffix(rel_path, sfx \o DotTxt))

\* where the file lands once the ".." parts are followed (no symbolic links)
RECURSIVE Resolve(_, _)
Resolve(parts, acc) ==
    IF parts = <<>> THEN acc
    ELSE IF parts[1] = <<".", ".">>
         THEN Resolve(Tail(parts), IF acc = <<>> THEN <<>> ELSE SubSeq(acc, 1, Len(acc) - 1))
         ELSE Resolve(Tail(parts), Append(acc, parts[1]))

InsideOutdir(p) ==
    /\ p # ValueError
    /\ p.anchor = outdir.anchor
    /\ LET at == Resolve(p.parts, <<>>)
       IN  Len(at) > Len(outdir.parts) /\ SubSeq(at, 1, Len(outdir.parts)) = outdir.parts

---------------------------------------------------------------------------
(* The site the crawl runs against.  A page is the set of the href values   *)
(* of its anchors; its text is named by its URL.  Every href is an absolute *)
(* http URL, which urljoin() returns as it is, "#fragment" included.        *)

RootSlash == HTTP \o <<"/","d","/">>                         \* http://s/d/
RootBare == HTTP \o <<"/","d">>                              \* http://s/d
Roots == {RootSlash, RootBare}

Index == RootSlash                                           \* http://s/d/
PageA == RootSlash \o <<"a",".","h","t","m">>                \* http://s/d/a.htm
PageB == RootSlash \o <<"b","/">>                            \* http://s/d/b/
PageAv == PageA \o <<"?","v">>                               \* http://s/d/a.htm?v
Query == RootSlash \o <<"?","q">>                            \* http://s/d/?q
Image == RootSlash \o <<"i",".","P","N","G">>                \* http://s/d/i.PNG
Outside == HTTP \o <<"/","x",".","h","t","m">>               \* http://s/x.htm
Sibling == HTTP \o <<"/","d","z",".","h","t","m">>           \* http://s/dz.htm
Dots == RootSlash \o <<".",".","/","x",".","h","t","m">>     \* http://s/d/../x.htm
Frag(u) == u \o <<"#","f">>

URLs == {Index, PageA, PageB, PageAv, Query, Image, Outside, Sibling, Dots}

NoLinks == [u \in URLs |-> {}]

SiteTree ==
    [NoLinks EXCEPT ![Index] = {PageA, Frag(PageA), PageB, Image, Outside},
                    ![PageA] = {Index, PageB},
                    ![PageB] = {Frag(Index), PageA}]

SiteQuery ==
    [NoLinks EXCEPT ![Index] = {PageA, Query},
                    ![Query] = {PageB},
                    ![PageB] = {Index}]

SiteCollide ==
    [NoLinks EXCEPT ![Index] = {PageA, PageAv, Sibling},
                    ![PageA] = {PageB},
                    ![Sibling] = {PageB, Frag(Sibling)}]

SiteDots ==
    [NoLinks EXCEPT ![Index] = {Dots, Image},
                    ![Dots] = {PageA, Frag(Dots)},
                    ![PageA] = {PageA, Outside}]

Sites == {SiteTree, SiteQuery, SiteCollide, SiteDots}

\* the URLs whose fetch may raise (timeout, network error, non-2xx status)
MayFail == {Index, PageA, PageB}

---------------------------------------------------------------------------
(* main(), lines 191-250: one action per way through the loop body.         *)

\* extract_links(), lines 174-184: the hrefs of the page, joined and defragmented
urljoin(base_url, href) == href

extract_links(html, base_url) == {urldefrag(urljoin(base_url, href)) : href \in html}

\* html_to_text(html) of a page of the site: the text is named by the page
PageText(url) == url

\* the loop condition, line 217, with the limit left out
LoopConditionQueueOnly(r) == q[r] # <<>>

\* line 217: while q and saved < args.max_pages
LoopCondition(r) == q[r] # <<>> /\ saved[r] < max_pages

\* lines 223-226 without the checks
PassesChecksAlways(url) == TRUE

\* lines 223-226: the URL goes on to fetch()
PassesChecks(url) == is_within_root(url, root) /\ ~should_skip_url(url)

\* line 221 left out
MarkSeenNever(r, url) == seen

\* line 221: seen.add(url)
MarkSeen(r, url) == [seen EXCEPT ![r] = @ \cup {url}]

\* the runs are made one after the other
Turn(r) == pc[r] = "loop" /\ \A r2 \in runs : r2 < r => pc[r2] # "loop"

Config == <<start, root, max_pages, site, down, runs>>
Harness == <<norm, pm, tx>>

\* lines 218-220: the URL was dequeued before
SkipSeen(r) ==
    /\ Turn(r) /\ LoopCondition(r)
    /\ Head(q[r]) \in seen[r]
    /\ q' = [q EXCEPT ![r] = Tail(@)]
    /\ dequeued' = [dequeued EXCEPT ![r] = Append(@, Head(q[r]))]
    /\ UNCHANGED <<seen, saved, files, fetched, pc, Config, Harness>>

\* lines 218-226: the URL is marked and dropped, out of root or an asset
Discard(r) ==
    /\ Turn(r) /\ LoopCondition(r)
    /\ Head(q[r]) \notin seen[r]
    /\ ~PassesChecks(Head(q[r]))
    /\ q' = [q EXCEPT ![r] = Tail(@)]
    /\ dequeued' = [dequeued EXCEPT ![r] = Append(@, Head(q[r]))]
    /\ seen' = MarkSeen(r, Head(q[r]))
    /\ UNCHANGED <<saved, files, fetched, pc, Config, Harness>>

\* the except clause turned into a re-raise
FetchFailedAborts(r) ==
    /\ Turn(r) /\ LoopCondition(r)
    /\ Head(q[r]) \notin seen[r]
    /\ PassesChecks(Head(q[r]))
    /\ Head(q[r]) \in down
    /\ q' = [q EXCEPT ![r] = Tail(@)]
    /\ dequeued' = [dequeued EXCEPT ![r] = Append(@, Head(q[r]))]
    /\ seen' = MarkSeen(r, Head(q[r]))
    /\ fetched' = [fetched EXCEPT ![r] = Append(@, Head(q[r]))]
    /\ pc' = [pc EXCEPT ![r] = "crashed"]
    /\ UNCHANGED <<saved, files, Config, Harness>>

\* lines 218-234: fetch() raises, the failure is printed, the loop goes on
FetchFailed(r) ==
    /\ Turn(r) /\ LoopCondition(r)
    /\ Head(q[r]) \notin seen[r]
    /\ PassesChecks(Head(q[r]))
    /\ Head(q[r]) \in down
    /\ q' = [q EXCEPT ![r] = Tail(@)]
    /\ dequeued' = [dequeued EXCEPT ![r] = Append(@, Head(q[r]))]
    /\ seen' = MarkSeen(r, Head(q[r]))
    /\ fetched' = [fetched EXCEPT ![r] = Append(@, Head(q[r]))]
    /\ UNCHANGED <<saved, files, pc, Config, Harness>>

\* lines 218-238: fetch() returns, url_to_outpath() raises ValueError, which
\* nothing catches: main() ends with the exception
SaveCrashed(r) ==
    /\ Turn(r) /\ LoopCondition(r)
    /\ Head(q[r]) \notin seen[r]
    /\ PassesChecks(Head(q[r]))
    /\ Head(q[r]) \notin down
    /\ url_to_outpath(Head(q[r]), root, outdir) = ValueError
    /\ q' = [q EXCEPT ![r] = Tail(@)]
    /\ dequeued' = [dequeued EXCEPT ![r] = Append(@, Head(q[r]))]
    /\ seen' = MarkSeen(r, Head(q[r]))
    /\ fetched' = [fetched EXCEPT ![r] = Append(@, Head(q[r]))]
    /\ pc' = [pc EXCEPT ![r] = "crashed"]
    /\ UNCHANGED <<saved, files, Config, Harness>>

\* the orders in which "for link in extract_links(html, url)" may yield a set
Orders(links) ==
    {o \in [1..Cardinality(links) -> links] :
        \A i, j \in 1..Cardinality(links) : o[i] = o[j] => i = j}

\* lines 218-248: the page is fetched, converted, written and counted, and its
\* links are enqueued
SavePage(r) ==
    /\ Turn(r) /\ LoopCondition(r)
    /\ Head(q[r]) \notin seen[r]
    /\ PassesChecks(Head(q[r]))
    /\ Head(q[r]) \notin down
    /\ LET url == Head(q[r])
           outpath == url_to_outpath(url, root, outdir)
           now == MarkSeen(r, url)[r]
           links == {link \in extract_links(site[url], url) :
                        link \notin now /\ is_within_root(link, root) /\ ~should_skip_url(link)}
       IN  /\ outpath # ValueError
           /\ seen' = MarkSeen(r, url)
           /\ dequeued' = [dequeued EXCEPT ![r] = Append(@, url)]
           /\ fetched' = [fetched EXCEPT ![r] = Append(@, url)]
           /\ files' = [files EXCEPT ![r] =
                          [p \in DOMAIN @ \cup {outpath} |->
                              IF p = outpath THEN PageText(url) ELSE @[p]]]
           /\ saved' = [saved EXCEPT ![r] = @ + 1]
           /\ \E order \in Orders(links) : q' = [q EXCEPT ![r] = Tail(@) \o order]
    /\ UNCHANGED <<pc, Config, Harness>>

\* lines 217 and 250: the loop condition is false, the summary is printed
LoopExit(r) ==
    /\ Turn(r)
    /\ ~LoopCondition(r)
    /\ pc' = [pc EXCEPT ![r] = "done"]
    /\ UNCHANGED <<q, seen, saved, files, dequeued, fetched, Config, Harness>>

HarnessIdle == norm = <<>> /\ pm = <<>> /\ tx = <<>>

\* lines 201-208 for each run: q = deque([start]), seen = set(), saved = 0
InitRuns(rs) ==
    /\ runs = rs
    /\ start \in URLs
    /\ root \in Roots
    /\ max_pages \in 0..MaxPagesBound
    /\ site \in Sites
    /\ down \in SUBSET MayFail
    /\ q = [r \in rs |-> <<start>>]
    /\ seen = [r \in rs |-> {}]
    /\ saved = [r \in rs |-> 0]
    /\ files = [r \in rs |-> <<>>]
    /\ dequeued = [r \in rs |-> <<>>]
    /\ fetched = [r \in rs |-> <<>>]
    /\ pc = [r \in rs |-> "loop"]
    /\ HarnessIdle

Init == InitRuns({1})

InitTwice == InitRuns({1, 2})

Next ==
    \/ \E r \in runs : SkipSeen(r)
    \/ \E r \in runs : Discard(r)
    \/ \E r \in runs : FetchFailed(r)
    \/ \E r \in runs : SaveCrashed(r)
    \/ \E r \in runs : SavePage(r)
    \/ \E r \in runs : LoopExit(r)

Spec == Init /\ [][Next]_vars

\* main() run twice with the same arguments against the same site
SpecTwice == InitTwice /\ [][Next]_vars

---------------------------------------------------------------------------
(* normalize() applied to a string, and again to its result.                *)

NormChars == {"\r", "\n", " ", "\t", "\f", "a"}

Strings(chars, n) == UNION {[1..k -> chars] : k \in 0..n}

CrawlIdle ==
    /\ start = <<>> /\ root = <<>> /\ max_pages = 0 /\ site = <<>> /\ down = {}
    /\ runs = {} /\ q = <<>> /\ seen = <<>> /\ saved = <<>> /\ files = <<>>
    /\ dequeued = <<>> /\ fetched = <<>> /\ pc = <<>>

Crawl == <<start, root, max_pages, site, down, runs, q, seen, saved, files,
           dequeued, fetched, pc>>

InitNormalize ==
    /\ \E x \in Strings(NormChars, MaxLen) :
          norm = [stage |-> "input", x |-> x, y |-> <<>>, yy |-> <<>>]
    /\ pm = <<>> /\ tx = <<>>
    /\ CrawlIdle

NormalizeOnce ==
    /\ norm.stage = "input"
    /\ norm' = [norm EXCEPT !.stage = "once", !.y = normalize(norm.x)]
    /\ UNCHANGED <<pm, tx, Crawl>>

NormalizeAgain ==
    /\ norm.stage = "once"
    /\ norm' = [norm EXCEPT !.stage = "twice", !.yy = normalize(norm.y)]
    /\ UNCHANGED <<pm, tx, Crawl>>

NextNormalize == NormalizeOnce \/ NormalizeAgain

SpecNormalize == InitNormalize /\ [][NextNormalize]_vars

---------------------------------------------------------------------------
(* url_to_outpath() applied as main() applies it, lines 223-238: to a URL   *)
(* that starts with root and is no asset.                                   *)

RelTokens ==
    { <<"/">>, <<".", ".">>, <<"?">>, <<"a">>, DotHtm, <<".", "H", "T", "M", "L">>,
      <<".", "j", "s">> }

InitPath ==
    /\ \E r \in Roots : \E toks \in Strings(RelTokens, MaxTokens) :
          pm = [stage |-> "input", url |-> r \o Concat(toks), root |-> r, out |-> ValueError]
    /\ norm = <<>> /\ tx = <<>>
    /\ CrawlIdle

\* lines 223-226: continue
PathDiscard ==
    /\ pm.stage = "input"
    /\ ~(is_within_root(pm.url, pm.root) /\ ~should_skip_url(pm.url))
    /\ pm' = [pm EXCEPT !.stage = "discarded"]
    /\ UNCHANGED <<norm, tx, Crawl>>

\* line 238
PathMap ==
    /\ pm.stage = "input"
    /\ is_within_root(pm.url, pm.root) /\ ~should_skip_url(pm.url)
    /\ pm' = [pm EXCEPT !.stage = "mapped", !.out = url_to_outpath(pm.url, pm.root, outdir)]
    /\ UNCHANGED <<norm, tx, Crawl>>

NextPath == PathDiscard \/ PathMap

SpecPath == InitPath /\ [][NextPath]_vars

---------------------------------------------------------------------------
(* html_to_text(), lines 66-157.  A parsed document is a sequence of nodes  *)
(* in document order; a node has its tag ("#text" for a NavigableString),   *)
(* its class attribute (a list of class names), its parent (0 for the node  *)
(* pick_main_content() returned) and, for a string, its text.               *)

JUNK_TAGS == {"script", "style", "noscript"}

NavTags == {"nav", "header", "footer"}

NavClasses == {
    <<"n","a","v","b","a","r">>, <<"n","a","v","l","i","s","t">>,
    <<"h","e","a","d","e","r">>, <<"f","o","o","t","e","r">>, <<"s","i","d","e">>,
    <<"s","i","d","e","b","a","r">>, <<"i","n","d","e","x","n","a","v">>,
    <<"t","o","p","n","a","v">> }

Headings == {"h1", "h2", "h3", "h4", "h5", "h6"}

\* int(name[1])
HeadingLevel(name) ==
    CASE name = "h1" -> 1 [] name = "h2" -> 2 [] name = "h3" -> 3
      [] name = "h4" -> 4 [] name = "h5" -> 5 [] name = "h6" -> 6

BlockTags == {"p", "div", "section", "article", "main", "ul", "ol", "blockquote",
              "dl", "dt", "dd", "hr"}

\* x in s, for strings
Contains(s, x) == \E i \in 0..(Len(s) - Len(x)) : SubSeq(s, i + 1, i + Len(x)) = x

\* sep.join(strs)
RECURSIVE Join(_, _)
Join(sep, strs) ==
    IF strs = <<>> THEN <<>>
    ELSE IF Len(strs) = 1 THEN strs[1]
    ELSE strs[1] \o sep \o Join(sep, Tail(strs))

\* el.children: the nodes whose parent is n, in document order
Children(doc, n) == SelectSeq([i \in 1..Len(doc) |-> i], LAMBDA i : doc[i].parent = n)

\* el.descendants: depth first, in document order
RECURSIVE Descendants(_, _)
RECURSIVE DescendantsOfAll(_, _)
Descendants(doc, n) == DescendantsOfAll(doc, Children(doc, n))
DescendantsOfAll(doc, kids) ==
    IF kids = <<>> THEN <<>>
    ELSE <<kids[1]>> \o Descendants(doc, kids[1]) \o DescendantsOfAll(doc, Tail(kids))

\* el.find_all(tags)
find_all(doc, n, tags) == SelectSeq(Descendants(doc, n), LAMBDA i : doc[i].tag \in tags)

\* el.get_text(sep, strip): the strings below el, each stripped and the empty
\* ones dropped when strip is set, joined by sep
get_text(doc, n, sep, strp) ==
    LET strs == SelectSeq(Descendants(doc, n), LAMBDA i : doc[i].tag = "#text")
        texts == [k \in 1..Len(strs) |->
                     IF strp THEN strip(doc[strs[k]].text) ELSE doc[strs[k]].text]
    IN  Join(sep, IF strp THEN SelectSeq(texts, LAMBDA t : t # <<>>) ELSE texts)

\* table_to_text(), lines 66-75
table_to_text(doc, table) ==
    LET cells(tr) == find_all(doc, tr, {"th", "td"})
        row(tr) == Join(<<" ", "|", " ">>,
                        [k \in 1..Len(cells(tr)) |-> get_text(doc, cells(tr)[k], <<" ">>, TRUE)])
        trs == SelectSeq(find_all(doc, table, {"tr"}), LAMBDA tr : cells(tr) # <<>>)
    IN  Join(<<"\n">>, [k \in 1..Len(trs) |-> row(trs[k])])

\* the code fence of line 119: three grave accents, each written "GRAVE" here
Fence == <<"GRAVE", "GRAVE", "GRAVE">>

\* emit(), lines 87-89: the empty string is not appended
emit(txt) == IF txt = <<>> THEN <<>> ELSE <<txt>>

\* lines 101-106: the element is navigation and is skipped
NavLike(node) ==
    \/ node.tag \in NavTags
    \/ \E x \in NavClasses : Contains(lower(Join(<<" ">>, node.class)), x)

\* walk(), lines 91-154: what one call appends to out
RECURSIVE walk(_, _)
RECURSIVE WalkAll(_, _)
walk(doc, n) ==
    LET name == doc[n].tag
        is_block == name \in BlockTags
    IN  IF name = "#text" THEN emit(doc[n].text)
        ELSE IF NavLike(doc[n]) THEN <<>>
        ELSE IF name \in JUNK_TAGS THEN <<>>
        ELSE IF name \in Headings
             THEN emit(<<"\n", "\n">> \o Repeat("#", HeadingLevel(name)) \o <<" ">>
                       \o get_text(doc, n, <<" ">>, TRUE) \o <<"\n", "\n">>)
        ELSE IF name = "pre"
             THEN emit(<<"\n", "\n">> \o Fence \o <<"\n">>
                       \o rstrip(get_text(doc, n, <<"\n">>, FALSE))
                       \o <<"\n">> \o Fence \o <<"\n", "\n">>)
        ELSE IF name = "table"
             THEN emit(<<"\n", "\n">> \o table_to_text(doc, n) \o <<"\n", "\n">>)
        ELSE IF name = "br" THEN emit(<<"\n">>)
        ELSE IF name = "li"
             THEN IF get_text(doc, n, <<" ">>, TRUE) # <<>>
                  THEN emit(<<"\n", "-", " ">> \o get_text(doc, n, <<" ">>, TRUE) \o <<"\n">>)
                  ELSE <<>>
        ELSE IF name = "hr"
             THEN emit(<<"\n", "\n">> \o Repeat("-", 40) \o <<"\n", "\n">>)
        ELSE (IF is_block THEN emit(<<"\n">>) ELSE <<>>)
             \o WalkAll(doc, Children(doc, n))
             \o (IF is_block THEN emit(<<"\n">>) ELSE <<>>)
WalkAll(doc, kids) ==
    IF kids = <<>> THEN <<>> ELSE walk(doc, kids[1]) \o WalkAll(doc, Tail(kids))

\* html_to_text(), lines 77-157, of a parsed document without script, style
\* or noscript elements, whose node 1 is what pick_main_content() returns
html_to_text(doc) == normalize(Concat(walk(doc, 1)))

---------------------------------------------------------------------------
(* html_to_text() applied to documents in which elements are nested one in  *)
(* the other below <main>, each element holding a string of its own after   *)
(* its nested element.                                                      *)

Element(tag, class) == [tag |-> tag, class |-> class]

ElementKinds == {
    Element("div", <<>>), Element("span", <<>>), Element("h2", <<>>), Element("li", <<>>),
    Element("pre", <<>>), Element("table", <<>>), Element("tr", <<>>), Element("td", <<>>),
    Element("nav", <<>>),
    Element("div", << <<"b","l","o","c","k">> >>),
    Element("span", << <<"t","o","p","N","a","v">>, <<"r","o","w">> >>) }

Digit == <<"0", "1", "2", "3", "4", "5", "6", "7", "8", "9">>

\* <main> e1 e2 ... ed Sd+1 ... S2 </e1> S1 </main>: node k + 1 is the k-th
\* element, node d + 1 + j is the string of element j (of <main> for j = 1)
BuildDoc(chain) ==
    LET d == Len(chain)
    IN  [i \in 1..(2 * d + 2) |->
            IF i = 1 THEN [tag |-> "main", class |-> <<>>, parent |-> 0, text |-> <<>>]
            ELSE IF i <= d + 1
                 THEN [tag |-> chain[i - 1].tag, class |-> chain[i - 1].class,
                       parent |-> i - 1, text |-> <<>>]
                 ELSE [tag |-> "#text", class |-> <<>>, parent |-> 2 * d + 3 - i,
                       text |-> <<Digit[2 * d + 3 - i]>>]]

InitHtml ==
    /\ \E chain \in Strings(ElementKinds, MaxNodes) :
          tx = [stage |-> "input", doc |-> BuildDoc(chain), out |-> <<>>]
    /\ norm = <<>> /\ pm = <<>>
    /\ CrawlIdle

\* line 237: text = html_to_text(html)
Transduce ==
    /\ tx.stage = "input"
    /\ tx' = [tx EXCEPT !.stage = "done", !.out = html_to_text(tx.doc)]
    /\ UNCHANGED <<norm, pm, Crawl>>

NextHtml == Transduce

SpecHtml == InitHtml /\ [][NextHtml]_vars

---------------------------------------------------------------------------
(* Properties of the crawl loop.                                            *)

Ended(r) == pc[r] # "loop"

Count(seq, x) == Cardinality({i \in 1..Len(seq) : seq[i] = x})

\* C1: every URL passed to fetch(), and every URL whose page was written to an
\* output file, starts with root and is not matched by should_skip_url; the
\* start URL is no exception.
FetchedWithinRootNotSkipped ==
    \A r \in runs :
        /\ \A i \in 1..Len(fetched[r]) :
              is_within_root(fetched[r][i], root) /\ ~should_skip_url(fetched[r][i])
        /\ \A p \in DOMAIN files[r] :
              is_within_root(files[r][p], root) /\ ~should_skip_url(files[r][p])

\* a finished run that saved a page linking to an asset and to a URL outside
\* root, and more than one page was fetched
FetchedWithinRootWitness ==
    \E r \in runs :
        /\ pc[r] = "done" /\ Len(fetched[r]) >= 2
        /\ \E p \in DOMAIN files[r] :
              /\ \E link \in extract_links(site[files[r][p]], files[r][p]) :
                    is_within_root(link, root) /\ should_skip_url(link)
              /\ \E link \in extract_links(site[files[r][p]], files[r][p]) :
                    ~is_within_root(link, root)

\* C2: the saved count never exceeds max-pages, and once it equals max-pages
\* nothing more is dequeued or fetched, whatever the queue still holds.
SavedNeverExceedsMax ==
    /\ [](\A r \in runs : saved[r] <= max_pages)
    /\ [][\A r \in runs : saved[r] = max_pages =>
              dequeued'[r] = dequeued[r] /\ fetched'[r] = fetched[r] /\ q'[r] = q[r]]_vars

\* the loop was left at max-pages after a failed fetch that did not count,
\* with a URL in the queue that was never visited and would have been fetched
SavedNeverExceedsMaxWitness ==
    \E r \in runs :
        /\ pc[r] = "done" /\ max_pages > 0 /\ saved[r] = max_pages
        /\ Len(fetched[r]) > saved[r]
        /\ \E i \in 1..Len(q[r]) : q[r][i] \notin seen[r] /\ PassesChecks(q[r][i])

\* C3: no URL is passed to fetch() twice in a run, and dequeuing a URL that is
\* in the visited set changes nothing but the queue.
NeverFetchedTwice ==
    /\ [](\A r \in runs : \A u \in URLs : Count(fetched[r], u) <= 1)
    /\ [][\A r \in runs :
            (dequeued'[r] # dequeued[r] /\ Head(q[r]) \in seen[r]) =>
                /\ q'[r] = Tail(q[r])
                /\ seen'[r] = seen[r] /\ saved'[r] = saved[r] /\ files'[r] = files[r]
                /\ fetched'[r] = fetched[r] /\ pc'[r] = pc[r]]_vars

\* a URL whose fetch failed was enqueued twice and dequeued twice, and
\* fetched once
NeverFetchedTwiceWitness ==
    \E r \in runs : \E u \in down :
        Count(dequeued[r], u) >= 2 /\ Count(fetched[r], u) = 1

\* C4: a step in which fetch() fails leaves the saved count and the output
\* files as they were, enqueues nothing, keeps the URL in the visited set and
\* leaves the run in its loop, at the next queued URL.
FetchFailureGoesOn ==
    [][\A r \in runs :
          (fetched'[r] # fetched[r] /\ fetched'[r][Len(fetched'[r])] \in down) =>
              /\ saved'[r] = saved[r]
              /\ files'[r] = files[r]
              /\ q'[r] = Tail(q[r])
              /\ Head(q[r]) \in seen'[r]
              /\ pc'[r] = "loop"]_vars

\* a page queued behind a URL whose fetch failed was fetched and written
FetchFailureGoesOnWitness ==
    \E r \in runs : \E i, j \in 1..Len(fetched[r]) :
        /\ i < j
        /\ fetched[r][i] \in down
        /\ \E p \in DOMAIN files[r] : files[r][p] = fetched[r][j]

Measure(r) ==
    (IF pc[r] = "loop" THEN 1 ELSE 0) + Len(q[r])
        + (Cardinality(URLs) + 1) * Cardinality(URLs \ seen[r])

\* every step lowers the measure of the run that takes it, and every queued
\* URL is one of the site, so that one way through the loop body applies to
\* it: every run ends
CrawlProgress ==
    /\ [][\E r \in runs : Measure(r)' < Measure(r)]_vars
    /\ [](\A r \in runs : \A i \in 1..Len(q[r]) : q[r][i] \in DOMAIN site)

\* the URLs within root and not skipped that a chain of links on such pages
\* leads to from the start URL
RECURSIVE LinkClosure(_)
LinkClosure(S) ==
    LET more == S \cup {link \in UNION {extract_links(site[u], u) : u \in S} :
                          PassesChecks(link)}
    IN  IF more = S THEN S ELSE LinkClosure(more)

Reachable == LinkClosure({start})

\* C10: with the start URL within root and not skipped, no failing fetch and
\* max-pages at least the number of reachable pages, a run that has ended has
\* fetched every reachable URL exactly once and its saved count is their number.
AllReachableSavedOnce ==
    \A r \in runs :
        (/\ Ended(r)
         /\ PassesChecks(start)
         /\ Reachable \cap down = {}
         /\ max_pages >= Cardinality(Reachable))
        => /\ \A u \in Reachable : Count(fetched[r], u) = 1
           /\ saved[r] = Cardinality(Reachable)

---------------------------------------------------------------------------
(* Properties of the pure functions.                                        *)

\* C7: normalize is idempotent: normalize(normalize(x)) = normalize(x).
NormalizeIdempotent == norm.stage = "twice" => norm.yy = norm.y

\* normalize applied twice to a string with "\r", a tab, a form feed and a
\* letter, whose normal form differs from it
NormalizeIdempotentWitness ==
    /\ norm.stage = "twice"
    /\ \A c \in {"\r", "\t", "\f", "a"} : \E i \in 1..Len(norm.x) : norm.x[i] = c
    /\ norm.y # norm.x
    /\ Len(norm.y) >= 4

\* the strings below node n that lie in or below a navigation-like element
\* of the content tree
RECURSIVE NavAbove(_, _)
NavAbove(doc, n) ==
    doc[n].parent # 0 /\ (NavLike(doc[doc[n].parent]) \/ NavAbove(doc, doc[n].parent))

\* C8: the text of a navigation-like element and of its descendants does not
\* appear in the output of html_to_text, wherever the element sits.
NavigationPruned ==
    tx.stage = "done" =>
        \A n \in 1..Len(tx.doc) :
            (tx.doc[n].tag = "#text" /\ NavAbove(tx.doc, n)) =>
                \A i \in 1..Len(tx.out) : tx.out[i] # tx.doc[n].text[1]

\* C9: for a URL that starts with root and is not skipped, url_to_outpath
\* returns, without raising, a path inside outdir whose name ends in ".txt".
OutpathInsideOutdir ==
    pm.stage = "mapped" =>
        /\ pm.out # ValueError
        /\ InsideOutdir(pm.out)
        /\ endswith(PathName(pm.out), DotTxt)

=============================================================================
